---- MODULE Spec2Model ----
(***************************************************************************)
(* Model of videoPipeline.ts: one run of the executable in the mode given  *)
(* by process.argv[2].  The producer walks the work list `ids`; the        *)
(* consumer handles the messages the broker delivers to eachMessage.       *)
(* Paths and keys are sequences of tokens ("/" and "." are separators), so *)
(* path.basename / path.extname / path.join are computed, not assumed.     *)
(***************************************************************************)
EXTENDS Integers, Sequences, FiniteSets, TLC

VARIABLES
    mode,       \* process.argv[2]
    mainPc,     \* where main() is
    store,      \* files under storageDir (the "S3" keys)
    files,      \* local scratch files (temp/ and temp_encoded/)
    topic,      \* messages sent to topic video-uploads, in order
    pIdx,       \* runProducer: index of the work-list item of the loop
    pPc,        \* runProducer: the await the iteration is at
    pOut,       \* runProducer: how the iteration of each item ended
    cPc,        \* consumer: the await the eachMessage handler is at
    handled,    \* consumer: one record per delivered message (history)
    running,    \* ffmpeg invocations that have not ended yet
    encodedVideos, \* processVideo: results of the join, by format index
    i           \* processVideo: index of the upload loop

vars == <<mode, mainPc, store, files, topic, pIdx, pPc, pOut,
          cPc, handled, running, encodedVideos, i>>

producerVars == <<pIdx, pPc, pOut>>
consumerVars == <<cPc, handled, running, encodedVideos, i>>

---------------------------------------------------------------------------
(* Bounds of the model *)

\* the broker delivers at most this many messages to the handler
MaxDeliveries == 2

\* the model runs with the first NumFormats of the configured formats
NumFormats == 2

---------------------------------------------------------------------------
(* Configuration *)

ids == <<"c-I5S_zTwAc", "DHjqpvDnNGE", "zQnBQ4tB3ZA">>

configuredFormats == <<"mp4", "avi", "webm", "mkv">>

outputFormats == SubSeq(configuredFormats, 1, NumFormats)

N == Len(outputFormats)

NoMode == "undefined"

Modes == {NoMode, "producer", "consumer", "transcode"}

---------------------------------------------------------------------------
(* path.* on token sequences *)

LastIndexOf(s, c) ==
    IF \E k \in 1..Len(s) : s[k] = c
    THEN CHOOSE k \in 1..Len(s) :
            s[k] = c /\ \A j \in (k+1)..Len(s) : s[j] # c
    ELSE 0

\* path.basename(p)
basename1(p) == SubSeq(p, LastIndexOf(p, "/") + 1, Len(p))

\* path.extname(p): from the last "." of the basename, "" when there is
\* none or when it is the first character of the basename
extname(p) ==
    LET b == basename1(p)
        d == LastIndexOf(b, ".")
    IN  IF d <= 1 THEN <<>> ELSE SubSeq(b, d, Len(b))

\* path.basename(p, ext)
basename(p, ext) ==
    LET b == basename1(p)
    IN  IF /\ ext # <<>>
           /\ Len(b) > Len(ext)
           /\ SubSeq(b, Len(b) - Len(ext) + 1, Len(b)) = ext
        THEN SubSeq(b, 1, Len(b) - Len(ext))
        ELSE b

\* path.join(dir, name)
join(dir, name) == dir \o <<"/">> \o name

---------------------------------------------------------------------------
(* Names the two workers compute *)

\* runProducer: outputFilename
outputFilename(id) == <<"downloaded_video_", id>>

\* runProducer: the path downloadYouTubeVideo resolves with
localOutputPath(id) == join(<<"temp">>, outputFilename(id)) \o <<".", "mp4">>

\* runProducer: s3Key
producerKey(id) == <<"videos", "/">> \o outputFilename(id) \o <<".", "mp4">>

\* processVideo: localVideoPath
localVideoPath(s3Key) == join(<<"temp_encoded">>, basename1(s3Key))

\* a variant of outputPath that keeps the input's extension in the name
outputPath_keepExt(inputPath, format) ==
    join(<<"temp_encoded">>, basename1(inputPath) \o <<".", format>>)

\* encodeVideo: outputPath
outputPath(inputPath, format) ==
    join(<<"temp_encoded">>,
         basename(inputPath, extname(inputPath)) \o <<".", format>>)

\* processVideo: the key an encoded file is uploaded under
encodedKey(encodedPath) == <<"encoded", "/">> \o basename1(encodedPath)

---------------------------------------------------------------------------
(* Inputs *)

KeyXmp4 == <<"videos", "/", "x", ".", "mp4">>
KeyYmov == <<"videos", "/", "y", ".", "mov">>
KeyZmov == <<"videos", "/", "z", ".", "mov">>

\* what storageDir holds when the process starts
InitialStore == {KeyXmp4, KeyYmov}

\* message.value of a delivered message: a key, an empty value, or null
Msg(v) == [present |-> TRUE, value |-> v]
NullMsg == [present |-> FALSE, value |-> <<>>]

Messages == {Msg(KeyXmp4), Msg(KeyYmov), Msg(KeyZmov), Msg(<<>>), NullMsg}

---------------------------------------------------------------------------
(* Initial state *)

Init ==
    /\ mode \in Modes
    /\ mainPc = "start"
    /\ store = InitialStore
    /\ files = {}
    /\ topic = <<>>
    /\ pIdx = 1
    /\ pPc = "off"
    /\ pOut = [k \in 1..Len(ids) |-> "none"]
    /\ cPc = "off"
    /\ handled = <<>>
    /\ running = {}
    /\ encodedVideos = [k \in 1..N |-> <<>>]
    /\ i = 0

---------------------------------------------------------------------------
(* main *)

\* a variant of main that treats an unknown or missing mode as "producer"
main_defaultProducer ==
    /\ mainPc = "start"
    /\ mainPc' = IF mode = "consumer" THEN "runConsumer" ELSE "runProducer"
    /\ pPc' = IF mode # "consumer" THEN "download" ELSE pPc
    /\ cPc' = IF mode = "consumer" THEN "connect" ELSE cPc
    /\ UNCHANGED <<mode, store, files, topic, pIdx, pOut,
                   handled, running, encodedVideos, i>>

main ==
    /\ mainPc = "start"
    /\ IF mode = NoMode THEN mainPc' = "exit1"
       ELSE IF mode = "producer" THEN mainPc' = "runProducer"
       ELSE IF mode = "consumer" THEN mainPc' = "runConsumer"
       ELSE mainPc' = "exit1"
    /\ pPc' = IF mode = "producer" THEN "download" ELSE pPc
    /\ cPc' = IF mode = "consumer" THEN "connect" ELSE cPc
    /\ UNCHANGED <<mode, store, files, topic, pIdx, pOut,
                   handled, running, encodedVideos, i>>

---------------------------------------------------------------------------
(* The "S3" interface and the broker *)

\* uploadToS3: fs.copyFile rejects when the local file is missing, and may
\* reject for any other reason (ok = FALSE)
uploadToS3Ok(localFilePath, ok) == ok /\ localFilePath \in files

\* a variant of uploadToS3 that resolves without having copied the file
uploadToS3_lost(localFilePath, s3Key, ok) == store

uploadToS3(localFilePath, s3Key, ok) ==
    IF uploadToS3Ok(localFilePath, ok) THEN store \cup {s3Key} ELSE store

\* a variant of downloadFromS3Ok that does not fail on a missing key
downloadFromS3Ok_anyKey(s3Key, ok) == ok

\* downloadFromS3: fs.copyFile rejects when storageDir has no such key
downloadFromS3Ok(s3Key, ok) == ok /\ s3Key \in store

downloadFromS3(s3Key, localPath, ok) ==
    IF downloadFromS3Ok(s3Key, ok) THEN files \cup {localPath} ELSE files

\* produceEvent: connect, send, disconnect; `failAt` is the await that
\* rejects ("none" when all three resolve).  The message is on the topic
\* once send has resolved.
ProduceOutcomes == {"connect", "send", "disconnect", "none"}

\* a variant of produceEvent whose send appends the message twice
produceEvent_resend(s3Key, failAt) ==
    IF failAt \in {"disconnect", "none"}
    THEN Append(Append(topic, s3Key), s3Key)
    ELSE topic

produceEvent(s3Key, failAt) ==
    IF failAt \in {"disconnect", "none"} THEN Append(topic, s3Key) ELSE topic

---------------------------------------------------------------------------
(* runProducer: one iteration of the for loop per work-list item *)

\* a variant of EndIteration without the catch: an error ends the loop
EndIteration_uncaught(outcome) ==
    /\ pOut' = [pOut EXCEPT ![pIdx] = outcome]
    /\ IF outcome = "ok"
       THEN /\ pIdx' = pIdx + 1
            /\ pPc' = IF pIdx = Len(ids) THEN "off" ELSE "download"
            /\ mainPc' = IF pIdx = Len(ids) THEN "done" ELSE mainPc
       ELSE /\ pIdx' = pIdx
            /\ pPc' = "off"
            /\ mainPc' = "fatal"

\* a variant of EndIteration that tries a failed item again
EndIteration_retry(outcome) ==
    /\ pOut' = [pOut EXCEPT ![pIdx] = IF outcome = "ok" THEN "ok" ELSE @]
    /\ pIdx' = IF outcome = "ok" THEN pIdx + 1 ELSE pIdx
    /\ pPc' = IF outcome = "ok" /\ pIdx = Len(ids) THEN "off" ELSE "download"
    /\ mainPc' = IF outcome = "ok" /\ pIdx = Len(ids) THEN "done" ELSE mainPc

\* the end of an iteration (normally or through the catch): next item, or
\* the loop is over and main returns
EndIteration(outcome) ==
    /\ pOut' = [pOut EXCEPT ![pIdx] = outcome]
    /\ pIdx' = pIdx + 1
    /\ pPc' = IF pIdx = Len(ids) THEN "off" ELSE "download"
    /\ mainPc' = IF pIdx = Len(ids) THEN "done" ELSE mainPc

runProducerDownload ==
    /\ mainPc = "runProducer" /\ pPc = "download"
    /\ \E ok \in BOOLEAN :
        IF ok
        THEN /\ files' = files \cup {localOutputPath(ids[pIdx])}
             /\ pPc' = "upload"
             /\ UNCHANGED <<mainPc, pIdx, pOut>>
        ELSE /\ EndIteration("download")
             /\ UNCHANGED files
    /\ UNCHANGED <<mode, store, topic>>
    /\ UNCHANGED consumerVars

runProducerUpload ==
    /\ mainPc = "runProducer" /\ pPc = "upload"
    /\ \E ok \in BOOLEAN :
        LET local == localOutputPath(ids[pIdx])
            s3Key == producerKey(ids[pIdx])
        IN  /\ store' = uploadToS3(local, s3Key, ok)
            /\ IF uploadToS3Ok(local, ok)
               THEN /\ pPc' = "publish"
                    /\ UNCHANGED <<mainPc, pIdx, pOut>>
               ELSE EndIteration("put")
    /\ UNCHANGED <<mode, files, topic>>
    /\ UNCHANGED consumerVars

\* await produceEvent(s3Key); fs.unlinkSync(localOutputPath);
runProducerPublish ==
    /\ mainPc = "runProducer" /\ pPc = "publish"
    /\ \E failAt \in ProduceOutcomes :
        LET local == localOutputPath(ids[pIdx])
            s3Key == producerKey(ids[pIdx])
        IN  /\ topic' = produceEvent(s3Key, failAt)
            /\ IF failAt # "none"
               THEN /\ EndIteration("publish")
                    /\ UNCHANGED files
               ELSE IF local \in files
               THEN /\ files' = files \ {local}
                    /\ EndIteration("ok")
               ELSE /\ EndIteration("unlink")
                    /\ UNCHANGED files
    /\ UNCHANGED <<mode, store>>
    /\ UNCHANGED consumerVars

runProducer == runProducerDownload \/ runProducerUpload \/ runProducerPublish

---------------------------------------------------------------------------
(* runConsumer and the eachMessage handler *)

\* consumer.connect / subscribe / run: the subscription is established, or
\* one of the awaits rejects and main's catch logs "Fatal error"
runConsumer ==
    /\ mainPc = "runConsumer" /\ cPc = "connect"
    /\ \E ok \in BOOLEAN :
        IF ok
        THEN cPc' = "idle" /\ UNCHANGED mainPc
        ELSE cPc' = "off" /\ mainPc' = "fatal"
    /\ UNCHANGED <<mode, store, files, topic, handled, running,
                   encodedVideos, i>>
    /\ UNCHANGED producerVars

\* the handling that is in progress, or the last one that ended
cur == Len(handled)

\* a variant of Truthy that skips a key an earlier handler has completed
Truthy_dedup(m) ==
    /\ m.present /\ m.value # <<>>
    /\ ~\E h \in 1..Len(handled) :
            handled[h].msg = m /\ handled[h].state = "resolved"

\* a variant of Truthy that only tests for an absent value
Truthy_presentOnly(m) == m.present

\* const s3Key = message.value?.toString(); if (s3Key) ...
Truthy(m) == m.present /\ m.value # <<>>

NewHandling(m) ==
    [msg     |-> m,
     state   |-> IF Truthy(m) THEN "running" ELSE "resolved",
     err     |-> "none",
     called  |-> Truthy(m),   \* processVideo was called
     gets    |-> 0,           \* downloadFromS3 calls
     started |-> 0,           \* encodeVideo calls
     encFail |-> FALSE,       \* one of its conversions has failed
     wrote   |-> {},          \* formats whose output on disk it wrote last
     putCalls |-> 0,          \* uploadToS3 calls
     puts    |-> <<>>]        \* keys uploadToS3 has written, in order

\* a variant of Reject with a catch in the handler: the error is swallowed
Reject_caught(h, why) == [h EXCEPT !.state = "resolved", !.err = why]

\* the handler's promise settles
Resolve(h) == [h EXCEPT !.state = "resolved"]
Reject(h, why) == [h EXCEPT !.state = "rejected", !.err = why]

\* The broker delivers a message to eachMessage.  It does so only when no
\* handler is in progress; after a handler rejected, the broker may
\* deliver again (the same message or another) or never.
eachMessage ==
    /\ mainPc = "runConsumer" /\ cPc = "idle"
    /\ Len(handled) < MaxDeliveries
    /\ \E m \in Messages :
        /\ handled' = Append(handled, NewHandling(m))
        /\ cPc' = IF Truthy(m) THEN "get" ELSE "idle"
    /\ UNCHANGED <<mode, mainPc, store, files, topic, running,
                   encodedVideos, i>>
    /\ UNCHANGED producerVars

\* The file at path p is overwritten or deleted: no conversion is its
\* last writer any more.
Unwrite(hs, p) ==
    [g \in 1..Len(hs) |->
        [hs[g] EXCEPT !.wrote =
            {f \in @ : outputPath(localVideoPath(hs[g].msg.value),
                                  outputFormats[f]) # p}]]

\* the ffmpeg invocations encodeVideo starts for handling h
StartEncodes(h) == {[h |-> h, f |-> f] : f \in 1..N}

\* await downloadFromS3(s3Key, localVideoPath);
\* outputFormats.map(format => encodeVideo(localVideoPath, format))
processVideoGet ==
    /\ cPc = "get"
    /\ \E ok \in BOOLEAN :
        LET s3Key == handled[cur].msg.value
            got == [handled[cur] EXCEPT !.gets = @ + 1]
            copied == Unwrite(handled, localVideoPath(s3Key))
        IN  /\ files' = downloadFromS3(s3Key, localVideoPath(s3Key), ok)
            /\ IF downloadFromS3Ok(s3Key, ok)
               THEN /\ running' = running \cup StartEncodes(cur)
                    /\ encodedVideos' = [k \in 1..N |-> <<>>]
                    /\ handled' = [copied EXCEPT
                                     ![cur] = [got EXCEPT !.started = N]]
                    /\ cPc' = "join"
               ELSE /\ handled' = [handled EXCEPT ![cur] = Reject(got, "get")]
                    /\ cPc' = "idle"
                    /\ UNCHANGED <<running, encodedVideos>>
    /\ UNCHANGED <<mode, mainPc, store, topic, i>>
    /\ UNCHANGED producerVars

\* the file ffmpeg invocation t writes
TaskOutput(t) ==
    outputPath(localVideoPath(handled[t.h].msg.value), outputFormats[t.f])

\* Promise.all is still pending on invocation t
InJoin(t) == cPc = "join" /\ t.h = cur

\* a variant of JoinOutcome that waits for all and ignores failures
JoinOutcome_allSettled(res, ok) ==
    IF \A k \in 1..N : res[k] # <<>> THEN "resolved" ELSE "pending"

\* a variant of JoinOutcome that waits for every conversion to end before
\* it rejects
JoinOutcome_waitAll(res, ok) ==
    IF \E t \in running : t.h = cur /\ res[t.f] = <<>> THEN "pending"
    ELSE IF ~ok \/ handled[cur].encFail THEN "rejected"
    ELSE "resolved"

\* Promise.all(...) when one more invocation has ended: it rejects at the
\* first failure, resolves when every result is in, and is pending else
JoinOutcome(res, ok) ==
    IF ~ok THEN "rejected"
    ELSE IF \A k \in 1..N : res[k] # <<>> THEN "resolved"
    ELSE "pending"

\* One ffmpeg invocation ends ("end" or "error").  When Promise.all of
\* the handling in progress is pending on it, the join settles as
\* JoinOutcome says; otherwise the invocation belongs to a join that has
\* already rejected and only its output file is left behind.
encodeVideoEnd ==
    /\ \E t \in running, ok \in BOOLEAN :
        LET out == TaskOutput(t)
            res == [encodedVideos EXCEPT ![t.f] = out]
            hs == IF ok THEN Unwrite(handled, out) ELSE handled
            h == [hs[t.h] EXCEPT
                    !.encFail = @ \/ ~ok,
                    !.wrote = IF ok THEN @ \cup {t.f} ELSE @]
        IN  /\ running' = running \ {t}
            /\ files' = IF ok THEN files \cup {out} ELSE files
            /\ IF ~InJoin(t)
               THEN /\ handled' = [hs EXCEPT ![t.h] = h]
                    /\ UNCHANGED <<cPc, encodedVideos, i>>
               ELSE IF JoinOutcome(res, ok) = "rejected"
               THEN /\ handled' = [hs EXCEPT
                                     ![t.h] = Reject(h, "encode")]
                    /\ cPc' = "idle"
                    /\ UNCHANGED <<encodedVideos, i>>
               ELSE /\ encodedVideos' = res
                    /\ handled' = [hs EXCEPT ![t.h] = h]
                    /\ IF JoinOutcome(res, ok) = "resolved"
                       THEN cPc' = "upload" /\ i' = 1
                       ELSE UNCHANGED <<cPc, i>>
    /\ UNCHANGED <<mode, mainPc, store, topic>>
    /\ UNCHANGED producerVars

\* One round of the upload loop: await uploadToS3(encodedVideos[i], ...);
\* fs.unlinkSync(encodedVideos[i]); and, after the last round,
\* fs.unlinkSync(localVideoPath), which throws when the file is not there.
processVideoUpload ==
    /\ cPc = "upload"
    /\ \E ok \in BOOLEAN :
        LET local == encodedVideos[i]
            key == encodedKey(local)
            orig == localVideoPath(handled[cur].msg.value)
            left == files \ {local}
            called == [handled[cur] EXCEPT !.putCalls = @ + 1]
            gone == Unwrite(Unwrite(handled, local),
                            IF i < N THEN local ELSE orig)
            put == [gone[cur] EXCEPT
                      !.putCalls = @ + 1,
                      !.puts = Append(@, key)]
        IN  /\ store' = uploadToS3(local, key, ok)
            /\ IF ~uploadToS3Ok(local, ok)
               THEN /\ handled' = [handled EXCEPT
                                     ![cur] = Reject(called, "put")]
                    /\ cPc' = "idle"
                    /\ UNCHANGED <<files, i>>
               ELSE IF i < N
               THEN /\ files' = left
                    /\ i' = i + 1
                    /\ handled' = [gone EXCEPT ![cur] = put]
                    /\ UNCHANGED cPc
               ELSE IF orig \in left
               THEN /\ files' = left \ {orig}
                    /\ handled' = [gone EXCEPT ![cur] = Resolve(put)]
                    /\ cPc' = "idle"
                    /\ UNCHANGED i
               ELSE /\ files' = left
                    /\ handled' = [gone EXCEPT
                                     ![cur] = Reject(put, "unlink")]
                    /\ cPc' = "idle"
                    /\ UNCHANGED i
    /\ UNCHANGED <<mode, mainPc, topic, running, encodedVideos>>
    /\ UNCHANGED producerVars

processVideo == processVideoGet \/ encodeVideoEnd \/ processVideoUpload

---------------------------------------------------------------------------
(* The program *)

Next ==
    \/ main
    \/ runProducerDownload
    \/ runProducerUpload
    \/ runProducerPublish
    \/ runConsumer
    \/ eachMessage
    \/ processVideoGet
    \/ encodeVideoEnd
    \/ processVideoUpload

Spec == Init /\ [][Next]_vars

\* Every await of main and of runProducer eventually settles (the
\* downloader, the copy and the broker calls return, with success or
\* failure), so a step of the producer that can be taken is taken.
FairSpec == Spec /\ WF_vars(main) /\ WF_vars(runProducer)

---------------------------------------------------------------------------
(* Properties of runProducer *)

\* the key and the number of events the producer should leave for an id
VideoKeyOf(id) == <<"videos", "/", "downloaded_video_", id, ".", "mp4">>

StoreKeysFor(id) == {s \in store : \E k \in 1..Len(s) : s[k] = id}

EventsWith(key) == Cardinality({k \in 1..Len(topic) : topic[k] = key})

\* C1: for every work-list id whose iteration succeeded (download, put and
\* publish), the store holds exactly one object for it, under
\* videos/downloaded_video_<id>.mp4, and the topic holds exactly one event
\* whose payload is that key.
C1_OneKeyOneEvent ==
    \A k \in 1..Len(ids) :
        pOut[k] = "ok" =>
            /\ StoreKeysFor(ids[k]) = {VideoKeyOf(ids[k])}
            /\ EventsWith(VideoKeyOf(ids[k])) = 1
            /\ \A j \in 1..Len(topic) :
                (\E n \in 1..Len(topic[j]) : topic[j][n] = ids[k])
                    => topic[j] = VideoKeyOf(ids[k])

C1_Witness ==
    /\ mainPc = "done"
    /\ \A k \in 1..Len(ids) : pOut[k] = "ok"

\* C4: a failure in one iteration is caught and the loop goes on: the
\* producer never stops before the list is exhausted, every item before
\* the current one has ended, an item that succeeded has its object and
\* its event, and an item whose download failed has neither.
C4_FailureIsolated ==
    mode = "producer" =>
        /\ mainPc \in {"start", "runProducer", "done"}
        /\ mainPc = "done" => pIdx = Len(ids) + 1
        /\ \A k \in 1..Len(ids) : (k < pIdx) <=> (pOut[k] # "none")
        /\ \A k \in 1..Len(ids) :
            /\ pOut[k] = "ok" =>
                /\ VideoKeyOf(ids[k]) \in store
                /\ EventsWith(VideoKeyOf(ids[k])) = 1
            /\ pOut[k] = "download" =>
                /\ VideoKeyOf(ids[k]) \notin store
                /\ EventsWith(VideoKeyOf(ids[k])) = 0

\* the scenario of the specification: item 2 of 3 fails to download
C4_Witness ==
    /\ mainPc = "done"
    /\ pOut = <<"ok", "download", "ok">>
    /\ Len(topic) = 2

---------------------------------------------------------------------------
(* Properties of processVideo *)

Handlings == 1..Len(handled)

\* the handler of handling h has settled
Ended(h) == handled[h].state # "running"

\* encoded/<basename of the original without extension>.<format>
EncodedKeyOf(s3Key, format) ==
    <<"encoded", "/">> \o basename(s3Key, extname(s3Key)) \o <<".", format>>

EncodedKeysOf(s3Key) == [f \in 1..N |-> EncodedKeyOf(s3Key, outputFormats[f])]

\* C2: for every event whose handler completed without error, the store
\* holds encoded/<basename without extension>.<f> for each configured
\* format f, and these N puts, one per format, are all the handling wrote.
C2_OneEncodedPerFormat ==
    \A h \in Handlings :
        (handled[h].called /\ handled[h].state = "resolved") =>
            /\ handled[h].puts = EncodedKeysOf(handled[h].msg.value)
            /\ handled[h].putCalls = N
            /\ \A f \in 1..N :
                EncodedKeyOf(handled[h].msg.value, outputFormats[f]) \in store

C2_Witness ==
    \E h \in Handlings :
        /\ handled[h].called /\ handled[h].state = "resolved"
        /\ handled[h].msg.value = KeyYmov
        /\ <<"encoded", "/", "y", ".", "mp4">> \in store

\* C3: if one of the conversions of a handling fails, that handling makes
\* no put under encoded/: the upload loop is never entered.
C3_NoUploadAfterEncodeFailure ==
    \A h \in Handlings :
        handled[h].encFail =>
            /\ handled[h].putCalls = 0
            /\ handled[h].puts = <<>>
            /\ (h = cur => cPc # "upload")

\* one conversion failed after another of the same handling had produced
\* its output
C3_Witness ==
    \E h \in Handlings :
        /\ handled[h].encFail
        /\ handled[h].err = "encode"
        /\ \E f \in 1..N :
            /\ [h |-> h, f |-> f] \notin running
            /\ outputPath(localVideoPath(handled[h].msg.value),
                          outputFormats[f]) \in files

\* C5: when processVideo gets a key that has no object in the store, the
\* get fails, no encoder is started, nothing is written under encoded/,
\* and the handler ends in error.
C5_MissingKeyFails ==
    \A h \in Handlings :
        (handled[h].gets > 0 /\ handled[h].msg.value \notin store) =>
            /\ handled[h].state = "rejected"
            /\ handled[h].err = "get"
            /\ handled[h].started = 0
            /\ \A t \in running : t.h # h
            /\ handled[h].putCalls = 0
            /\ handled[h].puts = <<>>

C5_Witness ==
    \E h \in Handlings :
        /\ handled[h].msg = Msg(KeyZmov)
        /\ handled[h].gets = 1
        /\ KeyZmov \notin store

\* a step of the get / encode / put sequence of handling h has failed
StepFailed(h) == handled[h].err \in {"get", "encode", "put"}

\* the local scratch files of the consumer
EncodedScratch == {p \in files : p[1] = "temp_encoded"}

\* C6 (as claimed): when the key's object exists and every get, encode and
\* put succeeds, the handler completes without error, the store has
\* encoded/<b>.<f> for every format, and no scratch file is left -- for
\* every key, also one whose extension is a configured format.
C6_CompletesForEveryKey ==
    \A h \in Handlings :
        (handled[h].called /\ Ended(h) /\ ~StepFailed(h)) =>
            /\ handled[h].state = "resolved"
            /\ \A f \in 1..N :
                EncodedKeyOf(handled[h].msg.value, outputFormats[f]) \in store
            /\ (h = cur /\ running = {}) => EncodedScratch = {}

\* C7: there is no deduplication.  Every delivery of a non-empty key whose
\* steps all succeed goes through one get, N encodes and N puts, whatever
\* was handled before; a second such delivery of the same key puts the
\* same encoded/ keys again, so the keys are the same and the puts double.
C7_RedeliveryReprocesses ==
    /\ \A h \in Handlings :
        ( /\ handled[h].msg.present /\ handled[h].msg.value # <<>>
          /\ Ended(h) /\ ~StepFailed(h) ) =>
            /\ handled[h].gets = 1
            /\ handled[h].started = N
            /\ handled[h].putCalls = N
            /\ handled[h].puts = EncodedKeysOf(handled[h].msg.value)
    /\ \A h1, h2 \in Handlings :
        ( /\ h1 < h2 /\ handled[h1].msg = handled[h2].msg
          /\ handled[h1].putCalls = N /\ Len(handled[h1].puts) = N
          /\ handled[h2].putCalls = N /\ Len(handled[h2].puts) = N ) =>
            /\ handled[h2].puts = handled[h1].puts
            /\ Len(handled[h1].puts) + Len(handled[h2].puts) = 2 * N
            /\ {handled[h2].puts[k] : k \in 1..N} \subseteq store

C7_Witness ==
    \E h1, h2 \in Handlings :
        /\ h1 < h2
        /\ handled[h1].msg = Msg(KeyYmov) /\ handled[h2].msg = Msg(KeyYmov)
        /\ handled[h1].state = "resolved" /\ handled[h2].state = "resolved"
        /\ Len(handled[h2].puts) = N

\* C8 (as claimed): while a handler is in progress, nothing that belongs
\* to an earlier message is running, its ffmpeg invocations included.
C8_NoEarlierWorkRunning ==
    cPc \in {"get", "join", "upload"} => \A t \in running : t.h = cur

\* C9 (as claimed): every scratch file is removed on every exit path: the
\* downloaded file is gone when its iteration has ended, and between two
\* handlers (with no conversion ever left behind) temp_encoded is empty.
C9_ScratchRemovedOnEveryPath ==
    /\ \A k \in 1..Len(ids) :
        pOut[k] # "none" => localOutputPath(ids[k]) \notin files
    /\ ( /\ cPc = "idle"
         /\ \A h \in Handlings : ~handled[h].encFail ) => EncodedScratch = {}

\* C10: a failure of get, encode or put leaves the handler rejected with
\* that error; the failed step is not tried again (one get, N encoder
\* starts, no put call after the failed one), and the key goes nowhere
\* else: the consumer sends nothing and writes only encoded/ keys.
C10_FailurePropagates ==
    /\ \A h \in Handlings :
        /\ handled[h].err # "none" =>
            /\ handled[h].state = "rejected"
            /\ h = cur => cPc = "idle"
        /\ handled[h].gets <= 1
        /\ handled[h].started \in {0, N}
        /\ handled[h].err = "get" =>
            /\ handled[h].gets = 1
            /\ handled[h].started = 0
            /\ handled[h].putCalls = 0
        /\ handled[h].encFail =>
            /\ handled[h].err = "encode"
            /\ handled[h].started = N
            /\ handled[h].putCalls = 0
        /\ handled[h].err = "put" =>
            /\ handled[h].putCalls = Len(handled[h].puts) + 1
            /\ handled[h].putCalls <= N
    /\ mode = "consumer" =>
        /\ topic = <<>>
        /\ \A s \in store \ InitialStore : s[1] = "encoded"

\* a get, an encode and a put failure have each ended a handler
C10_Witness ==
    /\ \E h \in Handlings : handled[h].err = "put" /\ handled[h].puts # <<>>
    /\ \E h \in Handlings : handled[h].err \in {"get", "encode"}

---------------------------------------------------------------------------
(* Termination of the producer; the entry point *)

\* C11: when every downloader, put and publish call returns, runProducer
\* finishes, whatever mix of successes and failures occurs, and by then
\* every work-list item has been attempted; an item is attempted once: the
\* loop moves on by exactly one item and an ended item's outcome is final.
C11_ProducerTerminates ==
    /\ (mode = "producer") ~>
            (mainPc = "done" /\ \A k \in 1..Len(ids) : pOut[k] # "none")
    /\ [][ /\ pIdx' \in {pIdx, pIdx + 1}
           /\ \A k \in 1..Len(ids) :
                pOut[k] # "none" => pOut'[k] = pOut[k] ]_vars

C11_Witness ==
    /\ mainPc = "done"
    /\ pOut = <<"put", "ok", "publish">>

\* C12: with no mode, or a mode other than producer and consumer, main
\* ends in process.exit(1) and starts neither worker: nothing is
\* downloaded, put, published or subscribed.
C12_UsageError ==
    mode \notin {"producer", "consumer"} =>
        /\ mainPc \in {"start", "exit1"}
        /\ pPc = "off" /\ pIdx = 1
        /\ cPc = "off" /\ handled = <<>> /\ running = {}
        /\ store = InitialStore /\ files = {} /\ topic = <<>>

C12_Witness ==
    mode = "transcode" /\ mainPc = "exit1"

---------------------------------------------------------------------------
(* The conversions of one video and the scratch directory *)

\* the file conversion f of handling h writes, and the original it reads
OutputOf(h, f) ==
    outputPath(localVideoPath(handled[h].msg.value), outputFormats[f])

OriginalOf(h) == localVideoPath(handled[h].msg.value)

\* C13 (as claimed): the conversions started for one video write pairwise
\* distinct files, and none of them writes the local original they read.
C13_OutputsDisjointFromInput ==
    \A h \in Handlings :
        handled[h].started > 0 =>
            /\ \A f, g \in 1..N : f # g => OutputOf(h, f) # OutputOf(h, g)
            /\ \A f \in 1..N : OutputOf(h, f) # OriginalOf(h)

\* the scratch files of the message whose handler is in progress
ScratchOfCurrent ==
    IF cPc \in {"get", "join", "upload"}
    THEN {OriginalOf(cur)} \cup {OutputOf(cur, f) : f \in 1..N}
    ELSE {}

\* C14 (as claimed): at every moment of the consumer's run, failed
\* handlings included, temp_encoded holds at most one original and at
\* most N outputs, all of the message being handled.
C14_ScratchBounded ==
    mode = "consumer" =>
        /\ EncodedScratch \subseteq ScratchOfCurrent
        /\ Cardinality(EncodedScratch) <= N + 1

\* the join of handling h has failed
JoinFailed(h) == handled[h].err = "encode"

\* the join fails at the first failed conversion, the handling uploads
\* nothing, and what its conversions wrote last is on disk
FailedJoinLeavesOutputs ==
    \A h \in Handlings :
        /\ handled[h].encFail => JoinFailed(h) /\ handled[h].state = "rejected"
        /\ JoinFailed(h) => handled[h].putCalls = 0 /\ handled[h].puts = <<>>
        /\ \A f \in handled[h].wrote : OutputOf(h, f) \in files

\* this step is a successful put of the file at path p by the upload loop
Uploads(p) ==
    /\ cPc = "upload" /\ encodedVideos[i] = p
    /\ Len(handled'[cur].puts) > Len(handled[cur].puts)

\* no conversion is cancelled: an ffmpeg invocation leaves by ending
NoCancellation == Cardinality(running \ running') <= 1

\* C15 (as claimed): when a conversion fails the join fails right then,
\* nothing is cancelled or waited for, and an output file written by a
\* conversion of the failed join, before or after the failure, is never
\* uploaded and never deleted.
C15_OrphansNeverTouched ==
    /\ []FailedJoinLeavesOutputs
    /\ [][NoCancellation]_vars
    /\ [][\A h \in Handlings : JoinFailed(h) =>
            \A f \in handled[h].wrote :
                /\ OutputOf(h, f) \in files'
                /\ ~Uploads(OutputOf(h, f))]_vars

\* C15 (amended): as above, but the file is left alone only by the
\* handling that failed: a later handling whose join succeeds and which
\* uses the same path (a redelivery of the key) uploads and deletes the
\* file in its upload loop, or deletes it as its local original.
C15_OrphansLeftByFailedHandling ==
    /\ []FailedJoinLeavesOutputs
    /\ [][NoCancellation]_vars
    /\ [][\A h \in Handlings : JoinFailed(h) =>
            \A f \in handled[h].wrote :
                \/ /\ OutputOf(h, f) \in files'
                   /\ ~Uploads(OutputOf(h, f))
                \/ /\ cur # h
                   /\ \/ Uploads(OutputOf(h, f))
                      \/ /\ Uploads(encodedVideos[i]) /\ i = N
                         /\ OriginalOf(cur) = OutputOf(h, f)]_vars

\* a conversion of the failed join ended after the handler had thrown and
\* its output is on disk
C15_Witness ==
    /\ cPc = "idle" /\ cur > 0 /\ JoinFailed(cur)
    /\ handled[cur].putCalls = 0
    /\ \E f \in handled[cur].wrote :
        /\ encodedVideos[f] = <<>>
        /\ OutputOf(cur, f) \in files

---------------------------------------------------------------------------
(* Store and topic; order of the producer *)

\* C16: every event on the topic carries a key that is in the store (the
\* key is sent only after its put has succeeded), and no step of either
\* worker removes a key from the store.
C16_EventsReferToStoredKeys ==
    /\ [](\A j \in 1..Len(topic) : topic[j] \in store)
    /\ [][store \subseteq store']_vars

C16_Witness ==
    /\ Len(topic) = Len(ids)
    /\ \A j \in 1..Len(topic) : topic[j] = VideoKeyOf(ids[j])

\* the position in the work list of the id a video key was made from
ItemOf(key) == CHOOSE k \in 1..Len(ids) : VideoKeyOf(ids[k]) = key

\* item k has left a trace: its download, its object or its event
Begun(k) ==
    \/ localOutputPath(ids[k]) \in files
    \/ VideoKeyOf(ids[k]) \in store
    \/ EventsWith(VideoKeyOf(ids[k])) > 0

\* C17: the producer handles the items one after another in list order
\* and tries none again: the events are the keys of a subsequence of the
\* work list, in its order and so at most one per id; an item has begun
\* only when every item before it has ended; the loop moves on by one.
C17_SequentialInOrder ==
    /\ [](/\ \A j \in 1..Len(topic) :
                \E k \in 1..Len(ids) : topic[j] = VideoKeyOf(ids[k])
          /\ \A j1, j2 \in 1..Len(topic) :
                j1 < j2 => ItemOf(topic[j1]) < ItemOf(topic[j2])
          /\ \A k \in 1..Len(ids) :
                Begun(k) =>
                    /\ k <= pIdx
                    /\ \A j \in 1..(k - 1) : pOut[j] # "none")
    /\ [][pIdx' \in {pIdx, pIdx + 1}]_vars

\* the first and the third item were published, the second was skipped
C17_Witness ==
    /\ mainPc = "done"
    /\ topic = <<VideoKeyOf(ids[1]), VideoKeyOf(ids[3])>>
    /\ pOut[2] = "put"

---------------------------------------------------------------------------
(* The upload loop; messages without a value *)

\* C18 (as claimed): the outputs are uploaded one at a time in format
\* order, each deleted right after its put; when the put of the k-th
\* fails the handler ends in error with outputs 1..k-1 uploaded, outputs
\* k..N not uploaded, and the local files of outputs k..N and the local
\* original still on disk.
C18_PutFailureLeavesRest ==
    (cPc = "idle" /\ cur > 0 /\ handled[cur].err = "put") =>
        LET k == handled[cur].putCalls
            s3Key == handled[cur].msg.value
        IN  /\ handled[cur].state = "rejected"
            /\ handled[cur].puts = SubSeq(EncodedKeysOf(s3Key), 1, k - 1)
            /\ \A f \in 1..(k - 1) :
                EncodedKeyOf(s3Key, outputFormats[f]) \in store
            /\ \A f \in k..N : OutputOf(cur, f) \in files
            /\ OriginalOf(cur) \in files

\* the value of message m is absent or empty
NoValue(m) == ~m.present \/ m.value = <<>>

\* C19: when a delivered message has an absent or empty value, the
\* handler does not call processVideo, reads and writes nothing in the
\* Blob Store, starts no encoder, and completes normally, so that the
\* next message can be delivered.
C19_InvalidMessageSkipped ==
    /\ [](\A h \in Handlings : NoValue(handled[h].msg) =>
            /\ ~handled[h].called
            /\ handled[h].state = "resolved" /\ handled[h].err = "none"
            /\ handled[h].gets = 0 /\ handled[h].started = 0
            /\ handled[h].putCalls = 0 /\ handled[h].puts = <<>>
            /\ h = cur => cPc = "idle"
            /\ \A r \in running : r.h # h)
    /\ [][(Len(handled') > Len(handled)
            /\ NoValue(handled'[Len(handled')].msg)) =>
                /\ store' = store /\ files' = files
                /\ running' = running /\ cPc' = "idle"]_vars

\* a message without a value was handled and the next one was delivered
C19_Witness ==
    /\ Len(handled) = 2
    /\ NoValue(handled[1].msg)
    /\ handled[1].state = "resolved" /\ ~handled[1].called
    /\ handled[2].called

====
